---- MODULE Spec2Model ----
(***************************************************************************)
(* VertexAIPassthroughConfig                                               *)
(* (litellm/llms/vertex_ai/passthrough/transformation.py).                 *)
(*                                                                         *)
(* A Python str is a sequence of one-character strings, so that lower(),   *)
(* the `in` substring test, startswith() and f-string interpolation are    *)
(* computed character by character.  A dict is a sequence of key/value     *)
(* entries in insertion order.  The adapter holds no state of its own: the *)
(* variables record the call in progress, its result, and the effects it   *)
(* had on its collaborators and on the caller's header mapping.            *)
(*                                                                         *)
(* Spec handles one request at a time, each method call in one step.       *)
(* SpecC runs several requests on the one instance at once, each method    *)
(* statement by statement, with the parameters and local names of a call   *)
(* kept in its activation record.                                          *)
(***************************************************************************)
EXTENDS Naturals, Sequences, FiniteSets, TLC

VARIABLES op, args, ret, callerHeaders, hostCalls, mints,
          pc, call, frames, heap, result

\* the variables of one request handled alone
svars == <<op, args, ret, callerHeaders, hostCalls, mints>>

\* the variables of the requests handled concurrently
cvars == <<pc, call, frames, heap, result>>

vars == <<op, args, ret, callerHeaders, hostCalls, mints, pc, call, frames, heap, result>>

(***************************************************************************)
(* Bounds                                                                  *)
(***************************************************************************)
\* an endpoint is a concatenation of at most MaxFrags fragments
MaxFrags == 3

\* the requests that use the one adapter instance at the same time
MaxThreads == 2

Threads == 1..MaxThreads

\* the slot of the adapter instance's own attributes; the slots of the
\* activation records of the calls in progress are the thread numbers
self == 0

\* a slot that holds nothing
NoFrame == <<>>

(***************************************************************************)
(* String literals of the source                                           *)
(***************************************************************************)
S_stream == <<"s","t","r","e","a","m">>
S_live == <<"l","i","v","e">>
S_realtime == <<"r","e","a","l","t","i","m","e">>
S_slash == <<"/">>
S_v1beta1_prefix == <<"/","v","1","b","e","t","a","1">>
S_global == <<"g","l","o","b","a","l">>
S_Bearer == <<"B","e","a","r","e","r"," ">>
S_application_json == <<"a","p","p","l","i","c","a","t","i","o","n","/","j","s","o","n">>
T_v1beta1_projects == <<"v","1","b","e","t","a","1","/","p","r","o","j","e","c","t","s","/">>
T_locations == <<"/","l","o","c","a","t","i","o","n","s","/">>
T_publishers_models == <<"/","p","u","b","l","i","s","h","e","r","s","/","g","o","o","g","l","e","/","m","o","d","e","l","s","/">>
T_streamRawPredict == <<":","s","t","r","e","a","m","R","a","w","P","r","e","d","i","c","t">>

(***************************************************************************)
(* Python values                                                           *)
(***************************************************************************)
\* Optional[str]
None == [some |-> FALSE, val |-> <<>>]
Some(s) == [some |-> TRUE, val |-> s]

\* dict values: bool, str, None
PyBool(b) == [t |-> "bool", b |-> b, s |-> <<>>]
PyStr(s) == [t |-> "str", b |-> FALSE, s |-> s]
PyNone == [t |-> "none", b |-> FALSE, s |-> <<>>]

\* bool(v)
Truthy(v) ==
    CASE v.t = "bool" -> v.b
      [] v.t = "str" -> v.s # <<>>
      [] OTHER -> FALSE

\* repr(v)
Repr(v) ==
    CASE v.t = "bool" -> IF v.b THEN <<"T","r","u","e">> ELSE <<"F","a","l","s","e">>
      [] v.t = "str" -> <<"'">> \o v.s \o <<"'">>
      [] OTHER -> <<"N","o","n","e">>

\* key in d
DictHas(d, k) == \E i \in 1..Len(d) : d[i].k = k

\* d.get(k, default)
DictGet(d, k, default) ==
    IF DictHas(d, k) THEN d[CHOOSE i \in 1..Len(d) : d[i].k = k].v ELSE default

RECURSIVE DictItemsStr(_)
DictItemsStr(d) ==
    IF d = <<>> THEN <<>>
    ELSE <<"'">> \o Head(d).k \o <<"'", ":", " ">> \o Repr(Head(d).v)
         \o (IF Len(d) > 1 THEN <<",", " ">> ELSE <<>>)
         \o DictItemsStr(Tail(d))

\* str(d) of a dict with str keys
str(d) == <<"{">> \o DictItemsStr(d) \o <<"}">>

UpperChars == <<"A","B","C","D","E","F","G","H","I","J","K","L","M","N","O","P","Q","R","S","T","U","V","W","X","Y","Z">>
LowerChars == <<"a","b","c","d","e","f","g","h","i","j","k","l","m","n","o","p","q","r","s","t","u","v","w","x","y","z">>

\* the lower-case letter of each upper-case ASCII letter
ToLower ==
    [c \in {UpperChars[i] : i \in 1..26} |->
        LowerChars[CHOOSE i \in 1..26 : UpperChars[i] = c]]

LowerChar(c) == IF c \in DOMAIN ToLower THEN ToLower[c] ELSE c

\* s.lower()
lower(s) == [i \in 1..Len(s) |-> LowerChar(s[i])]

\* sub in s
Contains(s, sub) ==
    \E i \in 0..(Len(s) - Len(sub)) : \A j \in 1..Len(sub) : s[i + j] = sub[j]

\* s.startswith(p)
startswith(s, p) == Len(s) >= Len(p) /\ SubSeq(s, 1, Len(p)) = p

\* s.endswith(p)
endswith(s, p) == Len(s) >= Len(p) /\ SubSeq(s, Len(s) - Len(p) + 1, Len(s)) = p

(***************************************************************************)
(* is_streaming_request                                                    *)
(***************************************************************************)
\* is_streaming_request with the endpoint tested as written, not lower-cased
is_streaming_request_case_sensitive(endpoint, request_data) ==
    IF \E keyword \in {S_stream, S_live, S_realtime} : Contains(endpoint, keyword)
    THEN TRUE
    ELSE IF Truthy(DictGet(request_data, S_stream, PyBool(FALSE)))
    THEN TRUE
    ELSE IF \E keyword \in {S_realtime, S_live} : DictHas(request_data, keyword)
    THEN TRUE
    ELSE FALSE

\* is_streaming_request with the "realtime"/"live" keys tested for a truthy value
is_streaming_request_truthy_keys(endpoint, request_data) ==
    IF \E keyword \in {S_stream, S_live, S_realtime} : Contains(lower(endpoint), keyword)
    THEN TRUE
    ELSE IF Truthy(DictGet(request_data, S_stream, PyBool(FALSE)))
    THEN TRUE
    ELSE IF \E keyword \in {S_realtime, S_live} :
                Truthy(DictGet(request_data, keyword, PyBool(FALSE)))
    THEN TRUE
    ELSE FALSE

\* is_streaming_request with the "stream" key tested for presence only
is_streaming_request_stream_present(endpoint, request_data) ==
    IF \E keyword \in {S_stream, S_live, S_realtime} : Contains(lower(endpoint), keyword)
    THEN TRUE
    ELSE IF DictHas(request_data, S_stream)
    THEN TRUE
    ELSE IF \E keyword \in {S_realtime, S_live} : DictHas(request_data, keyword)
    THEN TRUE
    ELSE FALSE

\* is_streaming_request with the endpoint tested for "stream" alone
is_streaming_request_stream_only(endpoint, request_data) ==
    IF Contains(lower(endpoint), S_stream)
    THEN TRUE
    ELSE IF Truthy(DictGet(request_data, S_stream, PyBool(FALSE)))
    THEN TRUE
    ELSE IF \E keyword \in {S_realtime, S_live} : DictHas(request_data, keyword)
    THEN TRUE
    ELSE FALSE

is_streaming_request(endpoint, request_data) ==
    IF \E keyword \in {S_stream, S_live, S_realtime} : Contains(lower(endpoint), keyword)
    THEN TRUE
    ELSE IF Truthy(DictGet(request_data, S_stream, PyBool(FALSE)))
    THEN TRUE
    ELSE IF \E keyword \in {S_realtime, S_live} : DictHas(request_data, keyword)
    THEN TRUE
    ELSE FALSE

(***************************************************************************)
(* Collaborators of get_complete_url                                       *)
(***************************************************************************)
H_https == <<"h","t","t","p","s",":","/","/">>
H_aiplatform == <<"-","a","i","p","l","a","t","f","o","r","m",".","g","o","o","g","l","e","a","p","i","s",".","c","o","m">>

\* VertexBase.get_vertex_ai_project: the configured project id, or None
get_vertex_ai_project(litellm_params) == litellm_params.vertex_project

\* VertexBase.get_vertex_ai_location: the configured region, or None
get_vertex_ai_location(litellm_params) == litellm_params.vertex_location

\* VertexBase.get_vertex_ai_credentials: the configured credential material
get_vertex_ai_credentials(litellm_params) == litellm_params.vertex_credentials

\* VertexBase.get_api_base: the explicit override, else the region-derived
\* default host when the region has one (hosts), else None
get_api_base(api_base, vertex_location, hosts) ==
    IF api_base.some THEN api_base
    ELSE IF vertex_location \in hosts
    THEN Some(H_https \o vertex_location \o H_aiplatform)
    ELSE None

RECURSIVE urlencode(_)
urlencode(params) ==
    IF params = <<>> THEN <<>>
    ELSE Head(params).k \o <<"=">> \o Head(params).v.s
         \o (IF Len(params) > 1 THEN <<"&">> ELSE <<>>)
         \o urlencode(Tail(params))

\* BasePassthroughConfig.format_url: endpoint relative to the base host, with
\* the query parameters (if any) as the query string
format_url(endpoint, base_target_url, request_query_params) ==
    [ base |-> base_target_url,
      path |-> endpoint,
      query |-> IF request_query_params.some
                THEN urlencode(request_query_params.val)
                ELSE <<>> ]

\* str(url)
UrlStr(url) ==
    url.base \o url.path
    \o (IF url.query = <<>> THEN <<>> ELSE <<"?">> \o url.query)

(***************************************************************************)
(* get_complete_url                                                        *)
(***************************************************************************)
\* location_or_global with no default: an absent region is the empty string
location_or_empty(vertex_location) == vertex_location.val

\* if vertex_location is None: vertex_location = "global"
location_or_global(vertex_location) ==
    IF ~vertex_location.some THEN S_global ELSE vertex_location.val

\* "live" in endpoint.lower() or "realtime" in endpoint.lower()
is_live_endpoint(endpoint) ==
    Contains(lower(endpoint), S_live) \/ Contains(lower(endpoint), S_realtime)

\* live_endpoint with the project and the location interpolated in each other's place
live_endpoint_swapped(vertex_project, vertex_location, model) ==
    T_v1beta1_projects \o vertex_location \o T_locations \o vertex_project
    \o T_publishers_models \o model \o T_streamRawPredict

\* the f-string of the Live API endpoint
live_endpoint(vertex_project, vertex_location, model) ==
    T_v1beta1_projects \o vertex_project \o T_locations \o vertex_location
    \o T_publishers_models \o model \o T_streamRawPredict

\* slash_prefixed with the "/" added unconditionally
slash_always(endpoint) == S_slash \o endpoint

\* if not endpoint.startswith("/"): endpoint = "/" + endpoint
slash_prefixed(endpoint) ==
    IF ~startswith(endpoint, S_slash) THEN S_slash \o endpoint ELSE endpoint

\* live_branch_endpoint with the template left without its leading "/"
live_branch_endpoint_unslashed(endpoint, vertex_project, vertex_location, model) ==
    IF ~startswith(slash_prefixed(endpoint), S_v1beta1_prefix)
    THEN live_endpoint(vertex_project, vertex_location, model)
    ELSE slash_prefixed(endpoint)

\* the endpoint handed to format_url on the Live API branch
live_branch_endpoint(endpoint, vertex_project, vertex_location, model) ==
    IF ~startswith(slash_prefixed(endpoint), S_v1beta1_prefix)
    THEN S_slash \o live_endpoint(vertex_project, vertex_location, model)
    ELSE slash_prefixed(endpoint)

\* project_missing with the project required only where the template is built
project_missing_when_templated(endpoint, vertex_project) ==
    /\ is_live_endpoint(endpoint)
    /\ ~startswith(slash_prefixed(endpoint), S_v1beta1_prefix)
    /\ ~vertex_project.some

\* if "live" in ... : if vertex_project is None: raise
project_missing(endpoint, vertex_project) ==
    is_live_endpoint(endpoint) /\ ~vertex_project.some

\* raised_message with the project checked before the base host
raised_message_project_first(base_target_url, endpoint, vertex_project) ==
    IF project_missing(endpoint, vertex_project)
    THEN "Vertex AI project ID is required for Live API"
    ELSE IF ~base_target_url.some
    THEN "Vertex AI api base not found"
    ELSE ""

\* raised_message with the project required on every endpoint, and first
raised_message_project_required_first(base_target_url, endpoint, vertex_project) ==
    IF ~vertex_project.some
    THEN "Vertex AI project ID is required for Live API"
    ELSE IF ~base_target_url.some
    THEN "Vertex AI api base not found"
    ELSE ""

\* the message of the exception the checks raise, in their order; "" if none
raised_message(base_target_url, endpoint, vertex_project) ==
    IF ~base_target_url.some
    THEN "Vertex AI api base not found"
    ELSE IF project_missing(endpoint, vertex_project)
    THEN "Vertex AI project ID is required for Live API"
    ELSE ""

\* get_complete_url returning the api_base argument as the base host
get_complete_url_returns_api_base(api_base, api_key, model, endpoint, request_query_params, litellm_params, hosts) ==
    LET vertex_project == get_vertex_ai_project(litellm_params)
        vertex_location == location_or_global(get_vertex_ai_location(litellm_params))
        calls == << [api_base |-> api_base, vertex_location |-> vertex_location] >>
        base_target_url == get_api_base(api_base, vertex_location, hosts)
        msg == raised_message(base_target_url, endpoint, vertex_project)
    IN  IF msg # ""
        THEN [ kind |-> "error", type |-> "Exception", msg |-> msg,
               api_base_calls |-> calls, mints |-> 0 ]
        ELSE LET final ==
                    IF is_live_endpoint(endpoint)
                    THEN live_branch_endpoint(endpoint, vertex_project.val, vertex_location, model)
                    ELSE slash_prefixed(endpoint)
             IN [ kind |-> "ok",
                  url |-> format_url(final, base_target_url.val, request_query_params),
                  base_target_url |-> api_base.val,
                  api_base_calls |-> calls, mints |-> 0 ]

get_complete_url(api_base, api_key, model, endpoint, request_query_params, litellm_params, hosts) ==
    LET vertex_project == get_vertex_ai_project(litellm_params)
        vertex_location == location_or_global(get_vertex_ai_location(litellm_params))
        calls == << [api_base |-> api_base, vertex_location |-> vertex_location] >>
        base_target_url == get_api_base(api_base, vertex_location, hosts)
        msg == raised_message(base_target_url, endpoint, vertex_project)
    IN  IF msg # ""
        THEN [ kind |-> "error", type |-> "Exception", msg |-> msg,
               api_base_calls |-> calls, mints |-> 0 ]
        ELSE LET final ==
                    IF is_live_endpoint(endpoint)
                    THEN live_branch_endpoint(endpoint, vertex_project.val, vertex_location, model)
                    ELSE slash_prefixed(endpoint)
             IN [ kind |-> "ok",
                  url |-> format_url(final, base_target_url.val, request_query_params),
                  base_target_url |-> base_target_url.val,
                  api_base_calls |-> calls, mints |-> 0 ]

(***************************************************************************)
(* validate_environment                                                    *)
(***************************************************************************)
\* VertexBase._ensure_access_token: the credential resolver mints
\* (access_token, project_id), or fails; its outcome is the resolver's alone
_ensure_access_token(credentials, project_id, custom_llm_provider, resolver) == resolver

\* update that keeps the value of a key the mapping already has
update_keep_existing(headers, other) ==
    [k \in DOMAIN headers \cup DOMAIN other |->
        IF k \in DOMAIN headers THEN headers[k] ELSE other[k]]

\* update that leaves only the keys of the other mapping
update_other_only(headers, other) == other

\* headers.update(other), on a mapping from header names to values
update(headers, other) ==
    [k \in DOMAIN headers \cup DOMAIN other |->
        IF k \in DOMAIN other THEN other[k] ELSE headers[k]]

\* "live" in model.lower() or "realtime" in str(optional_params).lower()
is_live_request(model, optional_params) ==
    Contains(lower(model), S_live) \/ Contains(lower(str(optional_params)), S_realtime)

\* the mapping of the first headers.update
auth_headers(access_token) ==
    [k \in {"Authorization", "Content-Type"} |->
        IF k = "Authorization" THEN S_Bearer \o access_token ELSE S_application_json]

\* the mapping of the second headers.update
live_headers(project_id) == [k \in {"X-Goog-User-Project"} |-> project_id]

\* validate_environment writing Content-Type before the token is minted
validate_environment_headers_first(headers, model, messages, optional_params, litellm_params, api_key, api_base, resolver) ==
    LET vertex_credentials == get_vertex_ai_credentials(litellm_params)
        vertex_project == get_vertex_ai_project(litellm_params)
        minted == _ensure_access_token(vertex_credentials, vertex_project, "vertex_ai", resolver)
    IN  IF ~minted.ok
        THEN [ kind |-> "error", type |-> "AuthenticationError",
               headers |-> update(headers, [k \in {"Content-Type"} |-> S_application_json]), written |-> {"Content-Type"}, mints |-> 1 ]
        ELSE LET first == update(headers, auth_headers(minted.access_token))
             IN  IF is_live_request(model, optional_params)
                 THEN [ kind |-> "ok", returned |-> "headers",
                        headers |-> update(first, live_headers(minted.project_id)),
                        written |-> {"Authorization", "Content-Type", "X-Goog-User-Project"},
                        mints |-> 1 ]
                 ELSE [ kind |-> "ok", returned |-> "headers", headers |-> first,
                        written |-> {"Authorization", "Content-Type"}, mints |-> 1 ]

\* validate_environment sending the configured project, not the resolver's
validate_environment_configured_project(headers, model, messages, optional_params, litellm_params, api_key, api_base, resolver) ==
    LET vertex_credentials == get_vertex_ai_credentials(litellm_params)
        vertex_project == get_vertex_ai_project(litellm_params)
        minted == _ensure_access_token(vertex_credentials, vertex_project, "vertex_ai", resolver)
    IN  IF ~minted.ok
        THEN [ kind |-> "error", type |-> "AuthenticationError",
               headers |-> headers, written |-> {}, mints |-> 1 ]
        ELSE LET first == update(headers, auth_headers(minted.access_token))
             IN  IF is_live_request(model, optional_params)
                 THEN [ kind |-> "ok", returned |-> "headers",
                        headers |-> update(first, live_headers(vertex_project.val)),
                        written |-> {"Authorization", "Content-Type", "X-Goog-User-Project"},
                        mints |-> 1 ]
                 ELSE [ kind |-> "ok", returned |-> "headers", headers |-> first,
                        written |-> {"Authorization", "Content-Type"}, mints |-> 1 ]

\* validate_environment asking the resolver twice, for the token and for the project
validate_environment_mints_twice(headers, model, messages, optional_params, litellm_params, api_key, api_base, resolver) ==
    LET vertex_credentials == get_vertex_ai_credentials(litellm_params)
        vertex_project == get_vertex_ai_project(litellm_params)
        minted == _ensure_access_token(vertex_credentials, vertex_project, "vertex_ai", resolver)
    IN  IF ~minted.ok
        THEN [ kind |-> "error", type |-> "AuthenticationError",
               headers |-> headers, written |-> {}, mints |-> 2 ]
        ELSE LET first == update(headers, auth_headers(minted.access_token))
             IN  IF is_live_request(model, optional_params)
                 THEN [ kind |-> "ok", returned |-> "headers",
                        headers |-> update(first, live_headers(minted.project_id)),
                        written |-> {"Authorization", "Content-Type", "X-Goog-User-Project"},
                        mints |-> 2 ]
                 ELSE [ kind |-> "ok", returned |-> "headers", headers |-> first,
                        written |-> {"Authorization", "Content-Type"}, mints |-> 2 ]

\* headers is the caller's own mapping: it is updated in place and returned
validate_environment(headers, model, messages, optional_params, litellm_params, api_key, api_base, resolver) ==
    LET vertex_credentials == get_vertex_ai_credentials(litellm_params)
        vertex_project == get_vertex_ai_project(litellm_params)
        minted == _ensure_access_token(vertex_credentials, vertex_project, "vertex_ai", resolver)
    IN  IF ~minted.ok
        THEN [ kind |-> "error", type |-> "AuthenticationError",
               headers |-> headers, written |-> {}, mints |-> 1 ]
        ELSE LET first == update(headers, auth_headers(minted.access_token))
             IN  IF is_live_request(model, optional_params)
                 THEN [ kind |-> "ok", returned |-> "headers",
                        headers |-> update(first, live_headers(minted.project_id)),
                        written |-> {"Authorization", "Content-Type", "X-Goog-User-Project"},
                        mints |-> 1 ]
                 ELSE [ kind |-> "ok", returned |-> "headers", headers |-> first,
                        written |-> {"Authorization", "Content-Type"}, mints |-> 1 ]

(***************************************************************************)
(* get_api_key, get_models, get_base_model                                 *)
(***************************************************************************)
\* get_api_key handing the static key back
get_api_key_passthrough(api_key) == api_key

get_api_key(api_key) == None

get_models(api_key, api_base) ==
    << <<"g","e","m","i","n","i","-","2",".","0","-","f","l","a","s","h","-","l","i","v","e","-","p","r","e","v","i","e","w">>,
       <<"g","e","m","i","n","i","-","l","i","v","e","-","2",".","5","-","f","l","a","s","h">>,
       <<"g","e","m","i","n","i","-","l","i","v","e","-","2",".","5","-","f","l","a","s","h","-","p","r","e","v","i","e","w","-","n","a","t","i","v","e","-","a","u","d","i","o">>,
       <<"g","e","m","i","n","i","-","2",".","0","-","f","l","a","s","h","-","l","i","v","e","-","0","0","1">> >>

\* get_base_model testing the model name for "live" only
get_base_model_live_only(model) ==
    IF Contains(lower(model), S_live) THEN Some(model) ELSE None

get_base_model(model) ==
    IF Contains(lower(model), S_live) \/ Contains(lower(model), S_realtime)
    THEN Some(model)
    ELSE None

(***************************************************************************)
(* Inputs                                                                  *)
(***************************************************************************)
F_v1beta1 == <<"v","1","b","e","t","a","1">>
F_LiVE == <<"L","i","V","E">>
F_RealTime == <<"R","e","a","l","T","i","m","e">>
F_predict == <<"p","r","e","d","i","c","t">>

Fragments == {S_slash, F_v1beta1, S_live, F_LiVE, F_RealTime, S_stream, F_predict}

RECURSIVE Concats(_)
Concats(n) ==
    IF n = 0 THEN {<<>>}
    ELSE LET shorter == Concats(n - 1)
         IN shorter \cup {s \o f : s \in shorter, f \in Fragments}

Endpoints == Concats(MaxFrags)

Entry(k, v) == [k |-> k, v |-> v]

K_voice == <<"v","o","i","c","e">>
K_mode == <<"m","o","d","e">>
V_Olive == <<"O","l","i","v","e">>

RequestDatas ==
    { <<>>,
      <<Entry(S_stream, PyBool(TRUE))>>,
      <<Entry(S_stream, PyBool(FALSE))>>,
      <<Entry(S_stream, PyStr(<<>>))>>,
      <<Entry(S_stream, PyNone)>>,
      <<Entry(S_stream, PyStr(V_Olive))>>,
      <<Entry(S_live, PyBool(FALSE))>>,
      <<Entry(S_realtime, PyStr(<<>>))>>,
      <<Entry(S_realtime, PyBool(TRUE))>>,
      <<Entry(K_mode, PyStr(S_live))>>,
      <<Entry(F_LiVE, PyBool(TRUE))>>,
      <<Entry(S_stream, PyBool(FALSE)), Entry(S_live, PyNone)>> }

M_pro == <<"g","-","p","r","o">>
M_Live == <<"g","-","L","i","v","e">>
M_realtime == <<"g","-","r","e","a","l","t","i","m","e">>

Models == {M_pro, M_Live, M_realtime}

P_p1 == <<"p","1">>
L_us == <<"u","s">>
H_override == <<"h","t","t","p","s",":","/","/","p","r","o","x","y">>
K_alt == <<"a","l","t">>
V_sse == <<"s","s","e">>

Projects == {None, Some(P_p1)}
Locations == {None, Some(L_us)}
ApiBases == {None, Some(H_override)}
QueryParams == {None, Some(<<Entry(K_alt, PyStr(V_sse))>>)}
\* the regions for which a default host can be derived: every one, or none
HostSets == {{}, {S_global, L_us}}

\* the paths get_complete_url builds from the Live API template
TemplatedPaths ==
    { S_slash \o live_endpoint(p.val, location_or_global(l), m) :
        p \in {q \in Projects : q.some}, l \in Locations, m \in Models }

\* the endpoints handed to is_streaming_request: logical endpoints and
\* resolved Live API paths
StreamingEndpoints == Endpoints \cup TemplatedPaths

P_p0 == <<"p","0">>
Tok1 == <<"t","1">>
Tok2 == <<"t","2">>
V_old == <<"o","l","d">>

OptionalParams ==
    { <<>>,
      <<Entry(S_realtime, PyBool(TRUE))>>,
      <<Entry(S_live, PyBool(TRUE))>>,
      <<Entry(K_mode, PyStr(F_RealTime))>>,
      <<Entry(K_voice, PyStr(V_Olive))>>,
      <<Entry(K_voice, PyStr(V_Olive)), Entry(S_stream, PyBool(FALSE))>> }

\* the empty header mapping
NoHeaders == [h \in {} |-> <<>>]

HeaderSets ==
    { NoHeaders,
      [k \in {"X-Custom"} |-> V_old],
      [k \in {"Authorization", "Content-Type"} |-> V_old],
      [k \in {"X-Goog-User-Project", "X-Custom"} |-> V_old] }

\* what the credential resolver does for one call
Resolvers ==
    {[ok |-> FALSE, access_token |-> <<>>, project_id |-> <<>>]}
    \cup [ok : {TRUE}, access_token : {Tok1, Tok2}, project_id : {P_p1, P_p0}]

K_key == <<"s","k","-","1">>

ApiKeys == {None, Some(K_key)}

\* model names handed to get_base_model
BaseModels == Models \cup {F_RealTime, F_LiVE \o M_pro, F_predict, <<>>}

(***************************************************************************)
(* State machine                                                           *)
(***************************************************************************)
Init ==
    /\ op = "idle"
    /\ args = <<>>
    /\ ret = <<>>
    /\ callerHeaders = NoHeaders
    /\ hostCalls = <<>>
    /\ mints = 0
    /\ pc = [t \in Threads |-> "idle"]
    /\ call = [t \in Threads |-> <<>>]
    /\ frames = [f \in {self} \cup Threads |-> NoFrame]
    /\ heap = [t \in Threads |-> NoHeaders]
    /\ result = [t \in Threads |-> <<>>]

IsStreamingRequest ==
    /\ op = "idle"
    /\ \E endpoint \in StreamingEndpoints, request_data \in RequestDatas :
        /\ op' = "is_streaming_request"
        /\ args' = [endpoint |-> endpoint, request_data |-> request_data]
        /\ ret' = [kind |-> "ok", value |-> is_streaming_request(endpoint, request_data)]
    /\ UNCHANGED <<callerHeaders, hostCalls, mints>>
    /\ UNCHANGED cvars

GetCompleteUrl ==
    /\ op = "idle"
    /\ \E api_base \in ApiBases, model \in Models, endpoint \in Endpoints,
          request_query_params \in QueryParams, vertex_project \in Projects,
          vertex_location \in Locations, hosts \in HostSets :
        LET litellm_params == [ vertex_project |-> vertex_project,
                                vertex_location |-> vertex_location,
                                vertex_credentials |-> None ]
        IN  \E r \in { get_complete_url(api_base, None, model, endpoint,
                                         request_query_params, litellm_params, hosts) } :
            /\ op' = "get_complete_url"
            /\ args' = [ api_base |-> api_base, model |-> model, endpoint |-> endpoint,
                         request_query_params |-> request_query_params,
                         litellm_params |-> litellm_params, hosts |-> hosts ]
            /\ ret' = IF r.kind = "ok"
                      THEN [kind |-> "ok", url |-> r.url, base_target_url |-> r.base_target_url]
                      ELSE [kind |-> "error", type |-> r.type, msg |-> r.msg]
            /\ hostCalls' = r.api_base_calls
            /\ mints' = r.mints
    /\ UNCHANGED callerHeaders
    /\ UNCHANGED cvars

ValidateEnvironment ==
    /\ op = "idle"
    /\ \E headers \in HeaderSets, model \in Models, optional_params \in OptionalParams,
          vertex_project \in Projects, resolver \in Resolvers :
        LET litellm_params == [ vertex_project |-> vertex_project,
                                vertex_location |-> None,
                                vertex_credentials |-> None ]
        IN  \E r \in { validate_environment(headers, model, <<>>, optional_params,
                                            litellm_params, None, H_override, resolver) } :
            /\ op' = "validate_environment"
            /\ args' = [ headers |-> headers, model |-> model,
                         optional_params |-> optional_params,
                         litellm_params |-> litellm_params, resolver |-> resolver ]
            /\ ret' = IF r.kind = "ok"
                      THEN [ kind |-> "ok", headers |-> r.headers, written |-> r.written,
                             returned |-> r.returned ]
                      ELSE [kind |-> "error", type |-> r.type, written |-> r.written]
            \* the returned mapping is the caller's own object, updated in place
            /\ callerHeaders' = r.headers
            /\ mints' = r.mints
    /\ UNCHANGED hostCalls
    /\ UNCHANGED cvars

GetApiKey ==
    /\ op = "idle"
    /\ \E api_key \in ApiKeys :
        /\ op' = "get_api_key"
        /\ args' = [api_key |-> api_key]
        /\ ret' = [kind |-> "ok", value |-> get_api_key(api_key)]
    /\ UNCHANGED <<callerHeaders, hostCalls, mints>>
    /\ UNCHANGED cvars

GetModels ==
    /\ op = "idle"
    /\ \E api_key \in ApiKeys, api_base \in ApiBases :
        /\ op' = "get_models"
        /\ args' = [api_key |-> api_key, api_base |-> api_base]
        /\ ret' = [kind |-> "ok", value |-> get_models(api_key, api_base)]
    /\ UNCHANGED <<callerHeaders, hostCalls, mints>>
    /\ UNCHANGED cvars

GetBaseModel ==
    /\ op = "idle"
    /\ \E model \in BaseModels :
        /\ op' = "get_base_model"
        /\ args' = [model |-> model]
        /\ ret' = [kind |-> "ok", value |-> get_base_model(model)]
    /\ UNCHANGED <<callerHeaders, hostCalls, mints>>
    /\ UNCHANGED cvars

\* the caller takes the result; the adapter keeps nothing
Return ==
    /\ op # "idle"
    /\ op' = "idle"
    /\ args' = <<>>
    /\ ret' = <<>>
    /\ callerHeaders' = NoHeaders
    /\ hostCalls' = <<>>
    /\ mints' = 0
    /\ UNCHANGED cvars

Next ==
    \/ IsStreamingRequest
    \/ GetCompleteUrl
    \/ ValidateEnvironment
    \/ GetApiKey
    \/ GetModels
    \/ GetBaseModel
    \/ Return

Spec == Init /\ [][Next]_vars

(***************************************************************************)
(* Several requests on the one adapter instance, statement by statement    *)
(***************************************************************************)
\* frame with every activation record kept in one instance-level field
frame_on_instance(t) == self

\* the slot that holds the parameters and local names of thread t's call:
\* the methods assign local names only and never an attribute of self
frame(t) == t

UrlArgs(endpoint, vertex_project, vertex_location, hosts) ==
    [ op |-> "get_complete_url", api_base |-> None, model |-> M_pro,
      endpoint |-> endpoint, request_query_params |-> None,
      litellm_params |-> [ vertex_project |-> vertex_project,
                           vertex_location |-> vertex_location,
                           vertex_credentials |-> None ],
      hosts |-> hosts ]

CUrlArgs ==
    { UrlArgs(S_live, Some(P_p1), Some(L_us), {S_global, L_us}),
      UrlArgs(S_live, Some(P_p1), None, {S_global, L_us}),
      UrlArgs(S_live, None, Some(L_us), {S_global, L_us}),
      UrlArgs(F_predict, None, None, {S_global, L_us}),
      UrlArgs(F_predict, Some(P_p1), Some(L_us), {}) }

ValidateArgs(model, vertex_project, resolver) ==
    [ op |-> "validate_environment", headers |-> NoHeaders, model |-> model,
      optional_params |-> <<>>,
      litellm_params |-> [ vertex_project |-> vertex_project,
                           vertex_location |-> None,
                           vertex_credentials |-> None ],
      resolver |-> resolver ]

CValidateArgs ==
    { ValidateArgs(M_pro, Some(P_p1), [ok |-> TRUE, access_token |-> Tok1, project_id |-> P_p1]),
      ValidateArgs(M_Live, None, [ok |-> TRUE, access_token |-> Tok2, project_id |-> P_p0]),
      ValidateArgs(M_Live, Some(P_p1), [ok |-> FALSE, access_token |-> <<>>, project_id |-> <<>>]) }

CStreamingArgs ==
    { [op |-> "is_streaming_request", endpoint |-> e, request_data |-> d] :
        e \in {S_live, F_predict},
        d \in {<<>>, <<Entry(S_stream, PyBool(TRUE))>>} }

CQueryArgs ==
    { [op |-> "get_api_key", api_key |-> Some(K_key)],
      [op |-> "get_models", api_key |-> None, api_base |-> None],
      [op |-> "get_base_model", model |-> M_Live],
      [op |-> "get_base_model", model |-> F_predict] }

\* thread t enters method a.op: the parameter names are bound as in fr
Enter(t, a, fr, at) ==
    /\ pc[t] = "idle"
    /\ call' = [call EXCEPT ![t] = a]
    /\ frames' = [frames EXCEPT ![frame(t)] = fr]
    /\ pc' = [pc EXCEPT ![t] = at]

\* thread t leaves its method with value v (returned or raised); the
\* activation record is dropped
Leave(t, v) ==
    /\ result' = [result EXCEPT ![t] = v]
    /\ frames' = [frames EXCEPT ![frame(t)] = NoFrame]
    /\ pc' = [pc EXCEPT ![t] = "done"]

\* thread t assigns the local names of `locals` and goes on at `at`
Assign(t, locals, at) ==
    /\ frames' = [frames EXCEPT ![frame(t)] = locals @@ frames[frame(t)]]
    /\ pc' = [pc EXCEPT ![t] = at]
    /\ UNCHANGED result

CallIsStreamingRequest(t) ==
    /\ \E a \in CStreamingArgs : Enter(t, a, a, "is_streaming_request:27")
    /\ UNCHANGED <<heap, result>>
    /\ UNCHANGED svars

\* lines 27-38
StreamingClassify(t) ==
    /\ pc[t] = "is_streaming_request:27"
    /\ LET fr == frames[frame(t)]
       IN  Leave(t, [kind |-> "ok", value |-> is_streaming_request(fr.endpoint, fr.request_data)])
    /\ UNCHANGED <<call, heap>>
    /\ UNCHANGED svars

CallGetCompleteUrl(t) ==
    /\ \E a \in CUrlArgs : Enter(t, a, a, "get_complete_url:58")
    /\ UNCHANGED <<heap, result>>
    /\ UNCHANGED svars

\* lines 58-64
UrlReadParams(t) ==
    /\ pc[t] = "get_complete_url:58"
    /\ LET fr == frames[frame(t)]
       IN  Assign(t, [ vertex_project |-> get_vertex_ai_project(fr.litellm_params),
                       vertex_location |->
                           location_or_global(get_vertex_ai_location(fr.litellm_params)) ],
                  "get_complete_url:67")
    /\ UNCHANGED <<call, heap>>
    /\ UNCHANGED svars

\* lines 67-73
UrlApiBase(t) ==
    /\ pc[t] = "get_complete_url:67"
    /\ LET fr == frames[frame(t)]
           base_target_url == get_api_base(fr.api_base, fr.vertex_location, fr.hosts)
       IN  IF ~base_target_url.some
           THEN Leave(t, [kind |-> "error", msg |-> "Vertex AI api base not found"])
           ELSE Assign(t, [base_target_url |-> base_target_url.val], "get_complete_url:77")
    /\ UNCHANGED <<call, heap>>
    /\ UNCHANGED svars

\* lines 77-96
UrlEndpoint(t) ==
    /\ pc[t] = "get_complete_url:77"
    /\ LET fr == frames[frame(t)]
       IN  IF project_missing(fr.endpoint, fr.vertex_project)
           THEN Leave(t, [ kind |-> "error",
                           msg |-> "Vertex AI project ID is required for Live API" ])
           ELSE LET endpoint == IF is_live_endpoint(fr.endpoint)
                                THEN live_branch_endpoint(fr.endpoint, fr.vertex_project.val,
                                                          fr.vertex_location, fr.model)
                                ELSE slash_prefixed(fr.endpoint)
                IN  Leave(t, [ kind |-> "ok",
                               url |-> format_url(endpoint, fr.base_target_url,
                                                  fr.request_query_params),
                               base_target_url |-> fr.base_target_url ])
    /\ UNCHANGED <<call, heap>>
    /\ UNCHANGED svars

\* the headers parameter is bound to the caller's own mapping, heap[t]
CallValidateEnvironment(t) ==
    /\ \E a \in CValidateArgs :
        /\ Enter(t, a, [a EXCEPT !.headers = t], "validate_environment:115")
        /\ heap' = [heap EXCEPT ![t] = a.headers]
    /\ UNCHANGED result
    /\ UNCHANGED svars

\* lines 115-116
ValidateReadParams(t) ==
    /\ pc[t] = "validate_environment:115"
    /\ LET fr == frames[frame(t)]
       IN  Assign(t, [ vertex_credentials |-> get_vertex_ai_credentials(fr.litellm_params),
                       vertex_project |-> get_vertex_ai_project(fr.litellm_params) ],
                  "validate_environment:119")
    /\ UNCHANGED <<call, heap>>
    /\ UNCHANGED svars

\* lines 119-123: the call to the credential resolver
ValidateEnsureToken(t) ==
    /\ pc[t] = "validate_environment:119"
    /\ LET fr == frames[frame(t)]
           minted == _ensure_access_token(fr.vertex_credentials, fr.vertex_project,
                                          "vertex_ai", fr.resolver)
       IN  IF ~minted.ok
           THEN Leave(t, [kind |-> "error", type |-> "AuthenticationError"])
           ELSE Assign(t, [ access_token |-> minted.access_token,
                            project_id |-> minted.project_id ],
                       "validate_environment:126")
    /\ UNCHANGED <<call, heap>>
    /\ UNCHANGED svars

\* lines 126-137: the mapping the headers name refers to is updated in place
\* and returned
ValidateHeaders(t) ==
    /\ pc[t] = "validate_environment:126"
    /\ LET fr == frames[frame(t)]
           first == update(heap[fr.headers], auth_headers(fr.access_token))
           headers == IF is_live_request(fr.model, fr.optional_params)
                      THEN update(first, live_headers(fr.project_id))
                      ELSE first
       IN  /\ heap' = [heap EXCEPT ![fr.headers] = headers]
           /\ Leave(t, [kind |-> "ok", headers |-> headers])
    /\ UNCHANGED call
    /\ UNCHANGED svars

CallModelQuery(t) ==
    /\ \E a \in CQueryArgs : Enter(t, a, a, "model_query")
    /\ UNCHANGED <<heap, result>>
    /\ UNCHANGED svars

\* lines 148, 159, 167-169
ModelQueryAnswer(t) ==
    /\ pc[t] = "model_query"
    /\ LET fr == frames[frame(t)]
       IN  Leave(t, [ kind |-> "ok",
                      value |-> CASE fr.op = "get_api_key" -> get_api_key(fr.api_key)
                                  [] fr.op = "get_models" -> get_models(fr.api_key, fr.api_base)
                                  [] fr.op = "get_base_model" -> get_base_model(fr.model) ])
    /\ UNCHANGED <<call, heap>>
    /\ UNCHANGED svars

\* the caller of thread t takes the result
TakeResult(t) ==
    /\ pc[t] = "done"
    /\ pc' = [pc EXCEPT ![t] = "idle"]
    /\ call' = [call EXCEPT ![t] = <<>>]
    /\ result' = [result EXCEPT ![t] = <<>>]
    /\ heap' = [heap EXCEPT ![t] = NoHeaders]
    /\ UNCHANGED frames
    /\ UNCHANGED svars

NextC ==
    \E t \in Threads :
        \/ CallIsStreamingRequest(t)
        \/ StreamingClassify(t)
        \/ CallGetCompleteUrl(t)
        \/ UrlReadParams(t)
        \/ UrlApiBase(t)
        \/ UrlEndpoint(t)
        \/ CallValidateEnvironment(t)
        \/ ValidateReadParams(t)
        \/ ValidateEnsureToken(t)
        \/ ValidateHeaders(t)
        \/ CallModelQuery(t)
        \/ ModelQueryAnswer(t)
        \/ TakeResult(t)

SpecC == Init /\ [][NextC]_vars

(***************************************************************************)
(* Properties                                                              *)
(***************************************************************************)
\* s contains "live" or "realtime" in any letter case
HasLiveToken(s) ==
    \E i \in 1..Len(s), kw \in {S_live, S_realtime} :
        /\ i + Len(kw) - 1 <= Len(s)
        /\ \A j \in 1..Len(kw) : LowerChar(s[i + j - 1]) = kw[j]

\* s contains "stream", "live" or "realtime" in any letter case
HasStreamToken(s) ==
    \/ HasLiveToken(s)
    \/ \E i \in 1..Len(s) :
        /\ i + Len(S_stream) - 1 <= Len(s)
        /\ \A j \in 1..Len(S_stream) : LowerChar(s[i + j - 1]) = S_stream[j]

\* the request data holds key k
HasKey(request_data, k) == \E i \in DOMAIN request_data : request_data[i].k = k

\* the request data holds key "stream" with a truthy value
StreamTruthy(request_data) ==
    \E i \in DOMAIN request_data :
        /\ request_data[i].k = S_stream
        /\ \/ request_data[i].v.t = "bool" /\ request_data[i].v.b
           \/ request_data[i].v.t = "str" /\ Len(request_data[i].v.s) > 0

InStreaming == op = "is_streaming_request"

\* C3: an endpoint that contains "stream", "live" or "realtime" in any letter
\* case is classified as streaming, whatever the request data holds
C3_EndpointTokenStreams ==
    (InStreaming /\ HasStreamToken(args.endpoint)) => ret.value = TRUE

\* C3 witness: a mixed-case "RealTime" endpoint with stream set to false
C3_Witness ==
    /\ InStreaming
    /\ args.endpoint = S_slash \o F_RealTime
    /\ args.request_data = <<Entry(S_stream, PyBool(FALSE))>>
    /\ ret.value = TRUE

\* C4: for every endpoint, request data with a truthy "stream", or with a key
\* "live" or "realtime" of any value, is classified as streaming
C4_DataStreams ==
    (InStreaming /\ (\/ StreamTruthy(args.request_data)
                     \/ HasKey(args.request_data, S_live)
                     \/ HasKey(args.request_data, S_realtime)))
        => ret.value = TRUE

\* C4 witness: a plain endpoint with key "live" set to false
C4_Witness ==
    /\ InStreaming
    /\ args.endpoint = F_predict
    /\ args.request_data = <<Entry(S_live, PyBool(FALSE))>>
    /\ ret.value = TRUE

\* C5: with no token in the endpoint, no truthy "stream" and no key "live" or
\* "realtime", the request is classified as not streaming
C5_NoIndicatorNotStreaming ==
    (InStreaming /\ ~HasStreamToken(args.endpoint)
                 /\ ~StreamTruthy(args.request_data)
                 /\ ~HasKey(args.request_data, S_live)
                 /\ ~HasKey(args.request_data, S_realtime))
        => ret.value = FALSE

\* C5 witness: the empty endpoint with stream set to false
C5_Witness ==
    /\ InStreaming
    /\ args.endpoint = <<>>
    /\ args.request_data = <<Entry(S_stream, PyBool(FALSE))>>
    /\ ret.value = FALSE

InUrl == op = "get_complete_url"

ConfiguredProject == args.litellm_params.vertex_project
ConfiguredRegion == args.litellm_params.vertex_location

\* the region of the call: the configured one, "global" when none is
EffectiveRegion == IF ConfiguredRegion.some THEN ConfiguredRegion.val ELSE S_global

\* a base host can be determined: an explicit override, or the region's default
HostResolves == args.api_base.some \/ EffectiveRegion \in args.hosts

\* /v1beta1/projects/{project}/locations/{region}/publishers/google/models/{m}:streamRawPredict
LivePath(project, region, m) ==
    <<"/","v","1","b","e","t","a","1","/","p","r","o","j","e","c","t","s","/">> \o project
    \o <<"/","l","o","c","a","t","i","o","n","s","/">> \o region
    \o <<"/","p","u","b","l","i","s","h","e","r","s","/","g","o","o","g","l","e","/","m","o","d","e","l","s","/">> \o m
    \o <<":","s","t","r","e","a","m","R","a","w","P","r","e","d","i","c","t">>

\* the endpoint begins with "/v1beta1" once it has its leading "/"
AlreadyVersioned(endpoint) ==
    \/ startswith(endpoint, <<"/","v","1","b","e","t","a","1">>)
    \/ startswith(endpoint, <<"v","1","b","e","t","a","1">>)

\* the endpoint with exactly one "/" put before it unless it begins with one
WithLeadingSlash(endpoint) ==
    IF Len(endpoint) > 0 /\ endpoint[1] = "/" THEN endpoint ELSE <<"/">> \o endpoint

\* C1 as stated: for every live/realtime endpoint, with a project configured
\* and a base host resolved, the caller's endpoint is discarded and the path
\* is exactly the Live API template
C1_LiveAlwaysTemplated ==
    (InUrl /\ HasLiveToken(args.endpoint) /\ ConfiguredProject.some /\ HostResolves)
        => /\ ret.kind = "ok"
           /\ ret.url.path = LivePath(ConfiguredProject.val, EffectiveRegion, args.model)

\* C1 amended: the path is exactly the Live API template for every
\* live/realtime endpoint that does not already begin with "/v1beta1" (with
\* its leading "/" added); one that does is kept as the path, with its
\* leading "/"
C1_LiveTemplatedUnlessVersioned ==
    (InUrl /\ HasLiveToken(args.endpoint) /\ ConfiguredProject.some /\ HostResolves)
        => /\ ret.kind = "ok"
           /\ ret.url.path =
                IF AlreadyVersioned(args.endpoint)
                THEN WithLeadingSlash(args.endpoint)
                ELSE LivePath(ConfiguredProject.val, EffectiveRegion, args.model)
           /\ ~AlreadyVersioned(args.endpoint)
                => /\ endswith(ret.url.path, <<":","s","t","r","e","a","m","R","a","w","P","r","e","d","i","c","t">>)
                   /\ Contains(ret.url.path, args.model)

\* C1 witness: a mixed-case live endpoint, region "us", replaced by the template
C1_Witness ==
    /\ InUrl
    /\ args.endpoint = F_LiVE \o S_slash \o S_stream
    /\ args.model = M_pro
    /\ ConfiguredRegion = Some(L_us)
    /\ ConfiguredProject = Some(P_p1)
    /\ ret.kind = "ok"
    /\ ret.url.path = LivePath(P_p1, L_us, M_pro)

\* C6 as stated: a live/realtime endpoint with no project id configured fails
\* with the project-ID-required error
C6_MissingProjectAlwaysProjectError ==
    (InUrl /\ HasLiveToken(args.endpoint) /\ ~ConfiguredProject.some)
        => /\ ret.kind = "error"
           /\ ret.msg = "Vertex AI project ID is required for Live API"

\* C6 amended: a live/realtime endpoint with no project id configured, when a
\* base host resolves, fails with the project-ID-required error and returns
\* no URL and no base host; with no base host the call fails as well
C6_MissingProjectFails ==
    (InUrl /\ HasLiveToken(args.endpoint) /\ ~ConfiguredProject.some)
        => /\ ret.kind = "error"
           /\ DOMAIN ret = {"kind", "type", "msg"}
           /\ HostResolves => ret.msg = "Vertex AI project ID is required for Live API"

\* C6 witness: a live endpoint already beginning with /v1beta1, no project
C6_Witness ==
    /\ InUrl
    /\ args.endpoint = S_slash \o F_v1beta1 \o F_RealTime
    /\ ~ConfiguredProject.some
    /\ HostResolves
    /\ ret.kind = "error"
    /\ ret.msg = "Vertex AI project ID is required for Live API"

\* C7: when no base host resolves, get_complete_url fails with the
\* api-base-not-found error, for every endpoint and model, and returns no URL
C7_NoHostFails ==
    (InUrl /\ ~HostResolves)
        => /\ ret.kind = "error"
           /\ ret.msg = "Vertex AI api base not found"
           /\ DOMAIN ret = {"kind", "type", "msg"}

\* C7 witness: a live endpoint, no project, and no base host
C7_Witness ==
    /\ InUrl
    /\ HasLiveToken(args.endpoint)
    /\ ~ConfiguredProject.some
    /\ ~HostResolves
    /\ ret.msg = "Vertex AI api base not found"

\* C9: with no region configured, host resolution is invoked once, with the
\* given api_base and region "global", and the locations segment of a
\* templated live path is "global"
C9_DefaultRegionGlobal ==
    (InUrl /\ ~ConfiguredRegion.some)
        => /\ hostCalls = << [api_base |-> args.api_base, vertex_location |-> S_global] >>
           /\ (ret.kind = "ok" /\ HasLiveToken(args.endpoint) /\ ~AlreadyVersioned(args.endpoint))
                => ret.url.path = LivePath(ConfiguredProject.val, S_global, args.model)

\* C9 witness: a live endpoint templated with locations/global
C9_Witness ==
    /\ InUrl
    /\ ~ConfiguredRegion.some
    /\ args.endpoint = S_live \o S_slash \o S_stream
    /\ ret.kind = "ok"
    /\ ret.url.path = LivePath(P_p1, S_global, args.model)
    /\ hostCalls[1].vertex_location = S_global

\* C10: a regular endpoint gets exactly one "/" put before it unless it begins
\* with one; the URL is the base host followed by that path (and the query
\* string, if any), whatever the model, project and region are
C10_RegularEndpointKept ==
    (InUrl /\ ~HasLiveToken(args.endpoint) /\ HostResolves)
        => /\ ret.kind = "ok"
           /\ ret.url.path = WithLeadingSlash(args.endpoint)
           /\ startswith(UrlStr(ret.url), ret.base_target_url \o WithLeadingSlash(args.endpoint))

\* C10 witness: "predict" becomes "/predict", with no project configured
C10_Witness ==
    /\ InUrl
    /\ args.endpoint = F_predict
    /\ ~ConfiguredProject.some
    /\ ret.kind = "ok"
    /\ ret.url.path = S_slash \o F_predict

InValidate == op = "validate_environment"

\* C2 as stated: X-Goog-User-Project is set if and only if "live" or
\* "realtime" appears, in any letter case, in the model name or in the
\* stringified optional_params
C2_UserProjectIffLiveToken ==
    (InValidate /\ ret.kind = "ok")
        => ("X-Goog-User-Project" \in ret.written
                <=> (HasLiveToken(args.model) \/ HasLiveToken(str(args.optional_params))))

\* C8: whenever the credential resolver succeeds, the returned mapping has
\* Authorization "Bearer " + the access token of this call and Content-Type
\* "application/json", whatever the caller supplied under those keys
C8_AuthHeadersSet ==
    (InValidate /\ args.resolver.ok)
        => /\ ret.kind = "ok"
           /\ ret.headers["Authorization"] =
                <<"B","e","a","r","e","r"," ">> \o args.resolver.access_token
           /\ ret.headers["Content-Type"] =
                <<"a","p","p","l","i","c","a","t","i","o","n","/","j","s","o","n">>

\* C8 witness: the caller's own Authorization and Content-Type are replaced
C8_Witness ==
    /\ InValidate
    /\ args.headers = [k \in {"Authorization", "Content-Type"} |-> V_old]
    /\ args.resolver.ok
    /\ args.resolver.access_token = Tok2
    /\ ret.headers["Authorization"] = S_Bearer \o Tok2
    /\ ret.headers["Content-Type"] = S_application_json

\* C11: get_api_key returns None for every input, a well-formed key included;
\* a static key passed in never comes back out
C11_ApiKeyAlwaysNone ==
    op = "get_api_key" => (ret.kind = "ok" /\ ~ret.value.some /\ ret.value = None)

\* C11 witness: a non-empty key goes in and None comes out
C11_Witness ==
    /\ op = "get_api_key"
    /\ args.api_key = Some(K_key)
    /\ ret.value = None

\* C15: get_base_model returns its input unchanged when the model name
\* contains "live" or "realtime" in any letter case, and None otherwise
C15_BaseModelInputOrNone ==
    op = "get_base_model"
        => /\ HasLiveToken(args.model) => ret.value = [some |-> TRUE, val |-> args.model]
           /\ ~HasLiveToken(args.model) => ~ret.value.some
           /\ ret.value.some => ret.value.val = args.model

\* C15 witness: a mixed-case "RealTime" name comes back as it went in
C15_Witness ==
    /\ op = "get_base_model"
    /\ args.model = F_RealTime
    /\ ret.value = Some(F_RealTime)

\* C12 as stated: after a successful validate_environment the caller's header
\* mapping holds what it held before, and the mapping returned is another object
C12_CallerHeadersReadOnly ==
    (InValidate /\ ret.kind = "ok")
        => /\ callerHeaders = args.headers
           /\ ret.returned # "headers"

\* C13: when the credential resolver fails, validate_environment fails with an
\* authentication error, returns no header mapping, and has written no key of
\* the caller's mapping
C13_ResolverFailureAtomic ==
    (InValidate /\ ~args.resolver.ok)
        => /\ ret.kind = "error"
           /\ ret.type = "AuthenticationError"
           /\ "headers" \notin DOMAIN ret
           /\ ret.written = {}
           /\ callerHeaders = args.headers

\* C13 witness: the resolver fails for a live model and the caller's own
\* headers are as they were
C13_Witness ==
    /\ InValidate
    /\ ~args.resolver.ok
    /\ args.model = M_Live
    /\ args.headers = [k \in {"X-Custom"} |-> V_old]
    /\ ret.kind = "error"
    /\ callerHeaders = args.headers

\* C17: whenever X-Goog-User-Project is added, its value is the project id the
\* credential resolver returned for this call, whatever project is configured
C17_UserProjectIsEffectiveProject ==
    (InValidate /\ ret.kind = "ok" /\ "X-Goog-User-Project" \in ret.written)
        => /\ "X-Goog-User-Project" \in DOMAIN ret.headers
           /\ ret.headers["X-Goog-User-Project"] = args.resolver.project_id

\* C17 witness: project p1 is configured, the resolver returns p0, p0 is sent
C17_Witness ==
    /\ InValidate
    /\ ret.kind = "ok"
    /\ args.litellm_params.vertex_project = Some(P_p1)
    /\ args.resolver.project_id = P_p0
    /\ "X-Goog-User-Project" \in ret.written
    /\ ret.headers["X-Goog-User-Project"] = P_p0

\* C18: the credential resolver is asked for a token exactly once in every
\* validate_environment call, and never in any other call, failed or not
C18_MintOnlyInValidate ==
    /\ InValidate => mints = 1
    /\ op \in {"idle", "is_streaming_request", "get_complete_url",
               "get_api_key", "get_models", "get_base_model"} => mints = 0

\* C18 witness: get_complete_url has failed for a missing project, with no
\* token minted
C18_Witness ==
    /\ InUrl
    /\ ret.kind = "error"
    /\ ret.msg = "Vertex AI project ID is required for Live API"
    /\ mints = 0

\* the base host of the call: the override, else the region's default host
ExpectedHost ==
    IF args.api_base.some THEN args.api_base.val
    ELSE <<"h","t","t","p","s",":","/","/">> \o EffectiveRegion
         \o <<"-","a","i","p","l","a","t","f","o","r","m",".","g","o","o","g","l","e","a","p","i","s",".","c","o","m">>

\* C14: the URL of every successful get_complete_url call begins with the
\* base host returned with it, which is the resolved host: the override or
\* the region's default; the path follows it, beginning with "/"
C14_UrlBeginsWithBaseHost ==
    (InUrl /\ ret.kind = "ok")
        => /\ startswith(UrlStr(ret.url), ret.base_target_url)
           /\ ret.base_target_url = ExpectedHost
           /\ UrlStr(ret.url)[Len(ret.base_target_url) + 1] = "/"

\* C14 witness: a live endpoint with query parameters under an api_base override
C14_Witness ==
    /\ InUrl
    /\ ret.kind = "ok"
    /\ args.api_base = Some(H_override)
    /\ args.request_query_params.some
    /\ HasLiveToken(args.endpoint)
    /\ ret.base_target_url = H_override
    /\ UrlStr(ret.url) = H_override \o ret.url.path \o <<"?","a","l","t","=","s","s","e">>

\* C19: an endpoint that get_complete_url takes to the live branch is
\* classified as streaming for any request data, and so is the path of every
\* live-templated URL; an endpoint with "stream" alone is streaming and takes
\* the regular branch
C19_LiveImpliesStreaming ==
    /\ InStreaming
        => /\ is_live_endpoint(args.endpoint) => ret.value = TRUE
           /\ args.endpoint \in TemplatedPaths => ret.value = TRUE
           /\ args.endpoint = S_stream
                => (ret.value = TRUE /\ ~is_live_endpoint(args.endpoint))
    /\ (/\ InUrl
        /\ ret.kind = "ok"
        /\ endswith(ret.url.path, <<":","s","t","r","e","a","m","R","a","w","P","r","e","d","i","c","t">>))
            => ret.url.path \in TemplatedPaths

\* C19 witness: the template of a model with no keyword in its name, with
\* stream set to false, is classified as streaming
C19_Witness ==
    /\ InStreaming
    /\ args.endpoint = LivePath(P_p1, S_global, M_pro)
    /\ ~is_live_endpoint(args.endpoint)
    /\ args.request_data = <<Entry(S_stream, PyBool(FALSE))>>
    /\ ret.value = TRUE

\* C20: with model, project, region and base host fixed, the path of a
\* successful get_complete_url call, given back as the endpoint, is resolved
\* to the same path again
C20_PathIdempotent ==
    (InUrl /\ ret.kind = "ok")
        => \A again \in { get_complete_url(args.api_base, None, args.model, ret.url.path,
                                           args.request_query_params, args.litellm_params,
                                           args.hosts) } :
                /\ again.kind = "ok"
                /\ again.url.path = ret.url.path
                /\ again.base_target_url = ret.base_target_url

\* C20 witness: a templated path with no "live" in it, which the second call
\* takes as a regular endpoint
C20_Witness ==
    /\ InUrl
    /\ ret.kind = "ok"
    /\ args.endpoint = S_live \o S_slash \o S_stream
    /\ args.model = M_pro
    /\ ret.url.path = LivePath(ConfiguredProject.val, EffectiveRegion, M_pro)
    /\ ~HasLiveToken(ret.url.path)


\* what the call a returns when it is the only call the instance ever serves
Alone(a) ==
    CASE a.op = "is_streaming_request" ->
            [kind |-> "ok", value |-> is_streaming_request(a.endpoint, a.request_data)]
      [] a.op = "get_complete_url" ->
            LET r == get_complete_url(a.api_base, None, a.model, a.endpoint,
                                      a.request_query_params, a.litellm_params, a.hosts)
            IN  IF r.kind = "ok"
                THEN [kind |-> "ok", url |-> r.url, base_target_url |-> r.base_target_url]
                ELSE [kind |-> "error", msg |-> r.msg]
      [] a.op = "validate_environment" ->
            LET r == validate_environment(a.headers, a.model, <<>>, a.optional_params,
                                          a.litellm_params, None, None, a.resolver)
            IN  IF r.kind = "ok"
                THEN [kind |-> "ok", headers |-> r.headers]
                ELSE [kind |-> "error", type |-> r.type]
      [] a.op = "get_api_key" -> [kind |-> "ok", value |-> get_api_key(a.api_key)]
      [] a.op = "get_models" -> [kind |-> "ok", value |-> get_models(a.api_key, a.api_base)]
      [] a.op = "get_base_model" -> [kind |-> "ok", value |-> get_base_model(a.model)]

\* C16: with the requests interleaved statement by statement on one instance,
\* no call writes the instance's attributes, every finished call has the
\* result its own arguments give when it runs alone, a finished
\* validate_environment call has left that result in its own caller's
\* mapping, and two finished get_complete_url calls with the same arguments
\* have the same URL and base host
C16_CallsIndependent ==
    /\ frames[self] = NoFrame
    /\ \A t \in Threads :
        pc[t] = "done"
            => /\ result[t] = Alone(call[t])
               /\ (call[t].op = "validate_environment" /\ result[t].kind = "ok")
                    => heap[t] = result[t].headers
    /\ \A t, u \in Threads :
        (/\ pc[t] = "done"
         /\ pc[u] = "done"
         /\ call[t].op = "get_complete_url"
         /\ call[u] = call[t])
            => (/\ result[t].kind = result[u].kind
                /\ result[t].kind = "ok"
                    => (/\ UrlStr(result[t].url) = UrlStr(result[u].url)
                        /\ result[t].base_target_url = result[u].base_target_url))

\* C16 witness: a get_complete_url call has returned the URL of region "us"
\* while a get_complete_url call for the default region and a
\* validate_environment call are in progress on the same instance
C16_Witness ==
    \E t, u \in Threads :
        /\ pc[t] = "done"
        /\ call[t] = UrlArgs(S_live, Some(P_p1), Some(L_us), {S_global, L_us})
        /\ result[t].kind = "ok"
        /\ result[t].url.path = LivePath(P_p1, L_us, M_pro)
        /\ pc[u] \in {"get_complete_url:67", "get_complete_url:77", "validate_environment:126"}
        /\ frames[u] # NoFrame
        /\ call[u] # call[t]


\* C21: the base host is checked before the project id: a live/realtime
\* endpoint with no base host and no project id fails with the
\* api-base-not-found error, not the project-ID-required one; and a regular
\* endpoint with no project id and a base host succeeds
C21_HostBeforeProject ==
    /\ (InUrl /\ ~ConfiguredProject.some /\ ~HostResolves /\ HasLiveToken(args.endpoint))
        => /\ ret.kind = "error"
           /\ ret.msg = "Vertex AI api base not found"
           /\ ret.msg # "Vertex AI project ID is required for Live API"
    /\ (InUrl /\ ~ConfiguredProject.some /\ HostResolves /\ ~HasLiveToken(args.endpoint))
        => /\ ret.kind = "ok"
           /\ ret.url.path = WithLeadingSlash(args.endpoint)

\* C21 witness: "RealTime" with no override, region "us" without a host, and
\* no project id
C21_Witness ==
    /\ InUrl
    /\ args.endpoint = F_RealTime
    /\ ~args.api_base.some
    /\ ConfiguredRegion = Some(L_us)
    /\ args.hosts = {}
    /\ ~ConfiguredProject.some
    /\ ret.kind = "error"
    /\ ret.msg = "Vertex AI api base not found"


\* the three header names validate_environment may write
WritableHeaders == {"Authorization", "Content-Type", "X-Goog-User-Project"}

\* C22: validate_environment changes at most three header keys: every header
\* the caller supplied under another key is returned with its original value,
\* no key outside the caller's and those three is added, and the caller's own
\* X-Goog-User-Project is returned untouched when neither the model nor the
\* optional_params mention live or realtime, and whenever the key is not
\* written
C22_OtherHeadersKept ==
    (InValidate /\ ret.kind = "ok")
        => /\ \A k \in DOMAIN args.headers \ WritableHeaders :
                k \in DOMAIN ret.headers /\ ret.headers[k] = args.headers[k]
           /\ DOMAIN ret.headers \subseteq (DOMAIN args.headers \cup WritableHeaders)
           /\ ret.written \subseteq WritableHeaders
           /\ ("X-Goog-User-Project" \in DOMAIN args.headers
               /\ (\/ ~(HasLiveToken(args.model) \/ HasLiveToken(str(args.optional_params)))
                   \/ "X-Goog-User-Project" \notin ret.written))
                => ret.headers["X-Goog-User-Project"] = args.headers["X-Goog-User-Project"]

\* C22 witness: the caller's X-Custom and X-Goog-User-Project come back as
\* supplied from a call that is not a live one, next to the two headers added
C22_Witness ==
    /\ InValidate
    /\ ret.kind = "ok"
    /\ args.headers = [k \in {"X-Goog-User-Project", "X-Custom"} |-> V_old]
    /\ args.model = M_pro
    /\ args.optional_params = <<>>
    /\ ret.headers["X-Custom"] = V_old
    /\ ret.headers["X-Goog-User-Project"] = V_old
    /\ DOMAIN ret.headers = {"X-Custom", "X-Goog-User-Project", "Authorization", "Content-Type"}

====
